---------------------------- MODULE Spec2Model ----------------------------
(***************************************************************************)
(* Dental clinic appointment API (src/main.py): date parsing, the          *)
(* availability query, and the create / reschedule / cancel handlers       *)
(* running as request threads over one SQLite database.                    *)
(*                                                                         *)
(* Text is modelled as a sequence of one-character strings, a datetime as  *)
(* the tuple <<year, month, day, hour, minute, second, microsecond>>.      *)
(***************************************************************************)
EXTENDS Integers, Sequences, FiniteSets, TLC

(***************************************************************************)
(* Program constants                                                       *)
(***************************************************************************)
WORK_START == 8
WORK_END == 16
APPOINTMENT_DURATION == 60
\* the timedelta(minutes=59) of check_availability
WINDOW_MINUTES == 59

(***************************************************************************)
(* Bounds of the model                                                     *)
(***************************************************************************)
\* largest id the store hands out in a run
MaxId == 2
\* the request threads: two, so that every pair of requests can race
Procs == {1, 2}

(***************************************************************************)
(* Characters and text                                                     *)
(***************************************************************************)
Digits == <<"0", "1", "2", "3", "4", "5", "6", "7", "8", "9">>

IsDigit(c) == \E k \in 1..10 : Digits[k] = c

DigitVal(c) == (CHOOSE k \in 1..10 : Digits[k] = c) - 1

\* byte value of a character, as SQLite's BINARY collation compares TEXT
Code(c) ==
    IF IsDigit(c) THEN 48 + DigitVal(c)
    ELSE CASE c = " " -> 32
           [] c = "-" -> 45
           [] c = "/" -> 47
           [] c = ":" -> 58
           [] c = "T" -> 84
           [] c = "Z" -> 90
           [] OTHER   -> 120

RECURSIVE StrLess(_, _)
\* a < b on TEXT values: bytewise, a proper prefix is smaller
StrLess(a, b) ==
    IF b = <<>> THEN FALSE
    ELSE IF a = <<>> THEN TRUE
    ELSE IF Code(Head(a)) # Code(Head(b)) THEN Code(Head(a)) < Code(Head(b))
    ELSE StrLess(Tail(a), Tail(b))

\* zero-padded decimal fields, as %m %d %H %M (width 2) and %Y (width 4) print
D2(n) == <<Digits[((n \div 10) % 10) + 1], Digits[(n % 10) + 1]>>

D4(n) == <<Digits[((n \div 1000) % 10) + 1], Digits[((n \div 100) % 10) + 1]>> \o D2(n % 100)

\* str.replace("Z", ""): every "Z" is dropped
StripZ(s) == SelectSeq(s, LAMBDA c : c # "Z")

(***************************************************************************)
(* datetime                                                                *)
(***************************************************************************)
IsLeap(y) == (y % 4 = 0 /\ y % 100 # 0) \/ y % 400 = 0

DaysInMonth(y, m) ==
    IF m = 2 THEN (IF IsLeap(y) THEN 29 ELSE 28)
    ELSE IF m \in {4, 6, 9, 11} THEN 30 ELSE 31

RECURSIVE TupleLess(_, _)
\* datetime.__lt__: field by field
TupleLess(a, b) ==
    IF a = <<>> \/ b = <<>> THEN FALSE
    ELSE IF Head(a) # Head(b) THEN Head(a) < Head(b)
    ELSE TupleLess(Tail(a), Tail(b))

PrevDay(dt) ==
    IF dt[3] > 1 THEN [dt EXCEPT ![3] = dt[3] - 1]
    ELSE IF dt[2] > 1 THEN [dt EXCEPT ![2] = dt[2] - 1, ![3] = DaysInMonth(dt[1], dt[2] - 1)]
    ELSE [dt EXCEPT ![1] = dt[1] - 1, ![2] = 12, ![3] = 31]

NextDay(dt) ==
    IF dt[3] < DaysInMonth(dt[1], dt[2]) THEN [dt EXCEPT ![3] = dt[3] + 1]
    ELSE IF dt[2] < 12 THEN [dt EXCEPT ![2] = dt[2] + 1, ![3] = 1]
    ELSE [dt EXCEPT ![1] = dt[1] + 1, ![2] = 1, ![3] = 1]

\* dt + timedelta(minutes=k), for |k| below one day
AddMinutes(dt, k) ==
    LET total == dt[4] * 60 + dt[5] + k
        day   == IF total < 0 THEN PrevDay(dt)
                 ELSE IF total >= 1440 THEN NextDay(dt) ELSE dt
        t     == (total + 1440) % 1440
    IN  [day EXCEPT ![4] = t \div 60, ![5] = t % 60]

(***************************************************************************)
(* strptime / strftime                                                     *)
(***************************************************************************)
NoMatch == <<>>

\* a directive's field: position in the datetime tuple, widths, value range
\* (%Y is \d\d\d\d; the others take one or two digits within their range)
Directive ==
    ("%Y" :> [pos |-> 1, min |-> 4, max |-> 4, lo |-> 0, hi |-> 9999]) @@
    ("%m" :> [pos |-> 2, min |-> 1, max |-> 2, lo |-> 1, hi |-> 12]) @@
    ("%d" :> [pos |-> 3, min |-> 1, max |-> 2, lo |-> 1, hi |-> 31]) @@
    ("%H" :> [pos |-> 4, min |-> 1, max |-> 2, lo |-> 0, hi |-> 23]) @@
    ("%M" :> [pos |-> 5, min |-> 1, max |-> 2, lo |-> 0, hi |-> 59]) @@
    ("%S" :> [pos |-> 6, min |-> 1, max |-> 2, lo |-> 0, hi |-> 59])

IsDirective(tok) == tok \in DOMAIN Directive

RECURSIVE DigitRun(_, _, _)
\* number of digits at s[i..], at most w
DigitRun(s, i, w) ==
    IF w = 0 \/ i > Len(s) \/ ~IsDigit(s[i]) THEN 0
    ELSE 1 + DigitRun(s, i + 1, w - 1)

RECURSIVE NumVal(_, _, _)
\* value of the n digits at s[i..]
NumVal(s, i, n) ==
    IF n = 0 THEN 0
    ELSE NumVal(s, i, n - 1) * 10 + DigitVal(s[i + n - 1])

RECURSIVE SpaceRun(_, _)
SpaceRun(s, i) ==
    IF i > Len(s) \/ s[i] # " " THEN 0 ELSE 1 + SpaceRun(s, i + 1)

RECURSIVE Match(_, _, _, _, _)
\* the format's regular expression applied at s[i..] from token j on; the
\* whole text must be consumed. Every numeric field of the four formats is
\* followed by a literal or the end, so a field takes the whole digit run.
Match(s, i, fmt, j, acc) ==
    IF j > Len(fmt) THEN (IF i > Len(s) THEN acc ELSE NoMatch)
    ELSE LET tok == fmt[j] IN
         IF IsDirective(tok) THEN
             LET f == Directive[tok]
                 n == DigitRun(s, i, f.max)
             IN  IF n < f.min THEN NoMatch
                 ELSE LET v == NumVal(s, i, n) IN
                      IF v < f.lo \/ v > f.hi THEN NoMatch
                      ELSE Match(s, i + n, fmt, j + 1, [acc EXCEPT ![f.pos] = v])
         ELSE IF tok = " " THEN
             LET n == SpaceRun(s, i)
             IN  IF n = 0 THEN NoMatch ELSE Match(s, i + n, fmt, j + 1, acc)
         ELSE IF i <= Len(s) /\ s[i] = tok THEN Match(s, i + 1, fmt, j + 1, acc)
         ELSE NoMatch

\* datetime.strptime(s, fmt): NoMatch stands for ValueError
Strptime(s, fmt) ==
    LET r == Match(s, 1, fmt, 1, <<1900, 1, 1, 0, 0, 0, 0>>)
    IN  IF r = NoMatch THEN NoMatch
        ELSE IF r[1] < 1 \/ r[3] > DaysInMonth(r[1], r[2]) THEN NoMatch
        ELSE r

\* "%Y-%m-%dT%H:%M:%SZ"
FormatISO == <<"%Y", "-", "%m", "-", "%d", "T", "%H", ":", "%M", ":", "%S", "Z">>
\* "%Y-%m-%d %H:%M:%S"
FormatSQL == <<"%Y", "-", "%m", "-", "%d", " ", "%H", ":", "%M", ":", "%S">>
\* "%d/%m/%Y %H:%M:%S"
FormatSlash == <<"%d", "/", "%m", "/", "%Y", " ", "%H", ":", "%M", ":", "%S">>
\* "%Y-%m-%d %H:%M"
FormatShort == <<"%Y", "-", "%m", "-", "%d", " ", "%H", ":", "%M">>

formats == <<FormatISO, FormatSQL, FormatSlash, FormatShort>>

\* dt.strftime("%Y-%m-%d %H:%M")
Strftime(dt) ==
    D4(dt[1]) \o <<"-">> \o D2(dt[2]) \o <<"-">> \o D2(dt[3]) \o <<" ">>
        \o D2(dt[4]) \o <<":">> \o D2(dt[5])

RECURSIVE TryFormats(_, _)
\* the for loop over formats: the first format that parses wins
TryFormats(s, k) ==
    IF k > Len(formats) THEN NoMatch
    ELSE LET r == Strptime(StripZ(s), formats[k])
         IN  IF r # NoMatch THEN r ELSE TryFormats(s, k + 1)

(***************************************************************************)
(* Requests the environment sends                                          *)
(***************************************************************************)
Dt(y, mo, d, h, mi, s) == <<y, mo, d, h, mi, s, 0>>

\* the four shapes of text a caller may send for an instant
AsShort(dt) == Strftime(dt)
AsSQL(dt) == Strftime(dt) \o <<":">> \o D2(dt[6])
AsISO(dt) ==
    D4(dt[1]) \o <<"-">> \o D2(dt[2]) \o <<"-">> \o D2(dt[3]) \o <<"T">>
        \o D2(dt[4]) \o <<":">> \o D2(dt[5]) \o <<":">> \o D2(dt[6]) \o <<"Z">>
AsSlash(dt) ==
    D2(dt[3]) \o <<"/">> \o D2(dt[2]) \o <<"/">> \o D4(dt[1]) \o <<" ">>
        \o D2(dt[4]) \o <<":">> \o D2(dt[5]) \o <<":">> \o D2(dt[6])

Garbage == <<"x", "x">>

\* date strings of the bookings of the one-request-at-a-time runs
SeqDates ==
    { AsShort(Dt(2099, 1, 10, 9, 0, 0)),
      AsShort(Dt(2099, 1, 10, 9, 30, 0)),
      AsShort(Dt(2099, 1, 10, 9, 59, 0)),
      AsShort(Dt(2099, 1, 10, 9, 5, 0)),
      AsShort(Dt(2099, 1, 10, 10, 0, 0)),
      AsShort(Dt(2099, 1, 10, 16, 0, 0)),
      AsShort(Dt(2020, 1, 1, 9, 0, 0)),
      AsSQL(Dt(2099, 1, 10, 9, 0, 30)),
      AsISO(Dt(2099, 1, 10, 9, 0, 0)),
      AsSlash(Dt(2099, 1, 10, 15, 30, 0)),
      Garbage }

\* date strings of the reschedules of the one-request-at-a-time runs
SeqUpdateDates ==
    { AsShort(Dt(2099, 1, 10, 9, 0, 0)),
      AsShort(Dt(2099, 1, 10, 9, 30, 0)),
      AsShort(Dt(2099, 1, 10, 10, 0, 0)),
      AsShort(Dt(2099, 1, 10, 16, 0, 0)),
      AsSQL(Dt(2099, 1, 10, 9, 0, 30)),
      AsISO(Dt(2099, 1, 10, 9, 0, 0)),
      Garbage }

\* date strings of the concurrent runs: bookings ...
ConcCreateDates ==
    { AsShort(Dt(2099, 1, 10, 9, 0, 0)),
      AsShort(Dt(2099, 1, 10, 16, 0, 0)),
      AsShort(Dt(2020, 1, 1, 9, 0, 0)),
      Garbage }

\* ... and reschedules
ConcUpdateDates ==
    { AsShort(Dt(2099, 1, 10, 9, 0, 0)),
      AsShort(Dt(2099, 1, 10, 9, 30, 0)),
      Garbage }

\* the `date` query parameter of the availability requests: a day with
\* bookings and a day without
DayText(dt) == D4(dt[1]) \o <<"-">> \o D2(dt[2]) \o <<"-">> \o D2(dt[3])

AvailabilityDays == { DayText(Dt(2099, 1, 10, 0, 0, 0)), DayText(Dt(2099, 1, 11, 0, 0, 0)) }

\* the parse of each date string the runs send, computed once
ParsedDates ==
    [d \in SeqDates \cup ConcCreateDates \cup ConcUpdateDates |-> TryFormats(d, 1)]

\* the dt_obj of parse_and_validate_date
ParseRaw(date_str) ==
    IF date_str \in DOMAIN ParsedDates THEN ParsedDates[date_str]
    ELSE TryFormats(date_str, 1)


\* the canonical texts of the date strings the runs send, each parsed once
CanonicalDates ==
    [t \in { Strftime(ParsedDates[d]) : d \in { x \in DOMAIN ParsedDates : ParsedDates[x] # NoMatch } }
        |-> Strptime(t, FormatShort)]

\* datetime.strptime(valid_date_str, "%Y-%m-%d %H:%M") in the handlers
ParseCanonical(text) ==
    IF text \in DOMAIN CanonicalDates THEN CanonicalDates[text]
    ELSE Strptime(text, FormatShort)

\* parse_and_validate_date(date_str) at clock reading now_: the canonical
\* text, or the rejection
parse_and_validate_date(date_str, now_) ==
    LET dt_obj == ParseRaw(date_str)
    IN  IF dt_obj = NoMatch THEN [ok |-> FALSE, err |-> "MalformedInput"]
        ELSE IF TupleLess(dt_obj, now_) THEN [ok |-> FALSE, err |-> "PastDate"]
        ELSE [ok |-> TRUE, text |-> Strftime(dt_obj)]


(***************************************************************************)
(* check_availability                                                      *)
(***************************************************************************)
\* Python's None for the optional exclude_id
None == -1

\* `if exclude_id:` is false for None and for 0
Truthy(x) == x # None /\ x # 0

\* the query that only finds a booking at the very same minute
ConflictRowsSameMinute(rows, target_dt, exclude_id) ==
    { r \in rows :
        /\ r.appointment_date = Strftime(target_dt)
        /\ (Truthy(exclude_id) => r.id # exclude_id) }

\* the query with a window of the whole duration
ConflictRowsWholeDuration(rows, target_dt, exclude_id) ==
    LET start == Strftime(AddMinutes(target_dt, -APPOINTMENT_DURATION))
        end   == Strftime(AddMinutes(target_dt, APPOINTMENT_DURATION))
    IN  { r \in rows :
            /\ StrLess(start, r.appointment_date)
            /\ StrLess(r.appointment_date, end)
            /\ (Truthy(exclude_id) => r.id # exclude_id) }

\* the query without the `AND id != ?` clause
ConflictRowsNoExclusion(rows, target_dt, exclude_id) ==
    LET start == Strftime(AddMinutes(target_dt, -WINDOW_MINUTES))
        end   == Strftime(AddMinutes(target_dt, WINDOW_MINUTES))
    IN  { r \in rows :
            /\ StrLess(start, r.appointment_date)
            /\ StrLess(r.appointment_date, end) }

\* the rows the SELECT of check_availability returns
ConflictRows(rows, target_dt, exclude_id) ==
    LET start == Strftime(AddMinutes(target_dt, -WINDOW_MINUTES))
        end   == Strftime(AddMinutes(target_dt, WINDOW_MINUTES))
    IN  { r \in rows :
            /\ StrLess(start, r.appointment_date)
            /\ StrLess(r.appointment_date, end)
            /\ (Truthy(exclude_id) => r.id # exclude_id) }

\* cursor.fetchone() is None
check_availability(rows, target_dt, exclude_id) ==
    ConflictRows(rows, target_dt, exclude_id) = {}

(***************************************************************************)
(* get_availability                                                        *)
(***************************************************************************)
\* SQLite's `text LIKE pattern`: "%" matches any run of characters, "_" any
\* one character, every other character itself (the texts here hold no
\* letters, so the case folding of LIKE does not show)
RECURSIVE Like(_, _)
Like(text, pattern) ==
    IF pattern = <<>> THEN text = <<>>
    ELSE IF Head(pattern) = "%"
         THEN Like(text, Tail(pattern)) \/ (text # <<>> /\ Like(Tail(text), pattern))
    ELSE IF text = <<>> THEN FALSE
    ELSE (Head(pattern) = "_" \/ Head(pattern) = Head(text))
            /\ Like(Tail(text), Tail(pattern))

\* range(WORK_START, WORK_END)
WorkHours == [i \in 1..(WORK_END - WORK_START) |-> WORK_START + i - 1]

\* f"{hour:02d}:00"
SlotLabel(hour) == D2(hour) \o <<":", "0", "0">>

\* the list comprehension `[f(hour) for hour in range(...) if keep(hour)]`
\* over the hours `kept`: the kept hours in the order of the range
SlotList(kept) ==
    [i \in 1..Cardinality(kept) |->
        SlotLabel(CHOOSE hour \in kept : Cardinality({ g \in kept : g < hour }) = i - 1)]

\* the slots with an hour taken wherever the overlap window of a booking
\* reaches the whole hour
get_availabilityByWindow(rows, date) ==
    LET day     == Strptime(date, <<"%Y", "-", "%m", "-", "%d">>)
        matched == { r \in rows : Like(r.appointment_date, date \o <<"%">>) }
    IN  SlotList({ hour \in { WorkHours[i] : i \in DOMAIN WorkHours } :
                     check_availability(matched, <<day[1], day[2], day[3], hour, 0, 0, 0>>, None) })

\* the available_slots of get_availability(date) over the committed rows
get_availability(rows, date) ==
    LET booked == { ParseCanonical(r.appointment_date)[4] :
                      r \in { x \in rows : Like(x.appointment_date, date \o <<"%">>) } }
    IN  SlotList({ hour \in { WorkHours[i] : i \in DOMAIN WorkHours } : hour \notin booked })

(***************************************************************************)
(* State                                                                   *)
(***************************************************************************)
VARIABLES
    appointments,     \* committed rows of table appointments
    sqlite_sequence,  \* AUTOINCREMENT: the largest id ever handed out
    writer,           \* thread whose connection holds the write lock, or 0
    now,              \* the wall clock, datetime.now()
    pc,               \* each request thread's position in its handler
    local,            \* each request thread's inputs and locals
    pre               \* one-at-a-time runs: the committed rows when the latest request arrived

vars == <<appointments, sqlite_sequence, writer, now, pc, local, pre>>

Idle ==
    [op |-> "none", appointment_id |-> 0, data |-> <<>>, valid_date_str |-> <<>>,
     validated_at |-> <<>>, outcome |-> "none", result |-> <<>>]

Rejections == {"MalformedInput", "PastDate", "OutOfHours", "Conflict", "NotFound"}

(***************************************************************************)
(* Payloads and clock readings                                             *)
(***************************************************************************)
Alice == [patient_name |-> "Alice", age |-> 30, service |-> "cleaning"]
Bob == [patient_name |-> "Bob", age |-> 40, service |-> "filling"]
Patients == {Alice, Bob}

\* the booking payloads of the one-request-at-a-time runs: every date string
\* from one patient, two whole hours from the other
SeqBookings ==
    { Alice @@ [appointment_date |-> d] : d \in SeqDates }
        \cup { Bob @@ [appointment_date |-> d] :
                   d \in { AsShort(Dt(2099, 1, 10, 9, 0, 0)), AsShort(Dt(2099, 1, 10, 10, 0, 0)) } }

\* clock readings: before every requested instant of 2099-01-10, and inside
\* the minute 09:00 of that day
ClockValues ==
    { <<2099, 1, 10, 7, 0, 0, 0>>, <<2099, 1, 10, 9, 0, 10, 500000>> }

(***************************************************************************)
(* Handlers                                                                *)
(***************************************************************************)
\* the handler returns or raises: the response is sent and the thread is
\* ready for its next request; local keeps what the response reports
Finish(p, loc, result) ==
    /\ pc' = [pc EXCEPT ![p] = "ready"]
    /\ local' = [local EXCEPT ![p] = [loc EXCEPT !.outcome = result]]

Goto(p, loc, label) ==
    /\ pc' = [pc EXCEPT ![p] = label]
    /\ local' = [local EXCEPT ![p] = loc]

\* threads that may still INSERT
Inserting == { q \in Procs : pc[q] \in {"create_check", "create_insert", "create_commit"} }

\* WORK_START <= dt.hour < WORK_END
InWorkingHours(dt) == WORK_START <= dt[4] /\ dt[4] < WORK_END

\* a create that goes to the store without the working-hours test
CreateValidateNoHoursTest(p, data) ==
    /\ pc[p] = "ready"
    /\ sqlite_sequence + Cardinality(Inserting) < MaxId
    /\ LET v   == parse_and_validate_date(data.appointment_date, now)
           loc == [Idle EXCEPT !.op = "create", !.data = data, !.validated_at = now]
       IN  IF ~v.ok THEN Finish(p, loc, v.err)
           ELSE Goto(p, [loc EXCEPT !.valid_date_str = v.text], "create_check")
    /\ UNCHANGED <<appointments, sqlite_sequence, writer, now>>

\* POST /appointments: parse_and_validate_date, then the working-hours test
CreateValidate(p, data) ==
    /\ pc[p] = "ready"
    /\ sqlite_sequence + Cardinality(Inserting) < MaxId
    /\ LET v   == parse_and_validate_date(data.appointment_date, now)
           loc == [Idle EXCEPT !.op = "create", !.data = data, !.validated_at = now]
       IN  IF ~v.ok THEN Finish(p, loc, v.err)
           ELSE LET dt == ParseCanonical(v.text)
                IN  IF ~InWorkingHours(dt) THEN Finish(p, loc, "OutOfHours")
                    ELSE Goto(p, [loc EXCEPT !.valid_date_str = v.text], "create_check")
    /\ UNCHANGED <<appointments, sqlite_sequence, writer, now>>

\* a create that inserts before it looks at the result of the query
CreateCheckInsertFirst(p) ==
    /\ pc[p] = "create_check"
    /\ LET dt == ParseCanonical(local[p].valid_date_str)
       IN  IF ~check_availability(appointments, dt, None)
           THEN /\ Finish(p, local[p], "Conflict")
                /\ appointments' = appointments \cup
                      {[id |-> sqlite_sequence + 1,
                        patient_name |-> local[p].data.patient_name,
                        age |-> local[p].data.age,
                        service |-> local[p].data.service,
                        appointment_date |-> local[p].valid_date_str]}
           ELSE /\ Goto(p, local[p], "create_insert")
                /\ UNCHANGED appointments
    /\ UNCHANGED <<sqlite_sequence, writer, now>>

\* create_appointment: get_db(), check_availability(conn, dt)
CreateCheck(p) ==
    /\ pc[p] = "create_check"
    /\ LET dt == ParseCanonical(local[p].valid_date_str)
       IN  IF ~check_availability(appointments, dt, None)
           THEN Finish(p, local[p], "Conflict")
           ELSE Goto(p, local[p], "create_insert")
    /\ UNCHANGED <<appointments, sqlite_sequence, writer, now>>

\* create_appointment: the INSERT opens the write transaction
CreateInsert(p) ==
    /\ pc[p] = "create_insert"
    /\ writer = 0
    /\ writer' = p
    /\ Goto(p, local[p], "create_commit")
    /\ UNCHANGED <<appointments, sqlite_sequence, now>>

\* the row an INSERT adds when the key is a plain INTEGER PRIMARY KEY: one
\* above the largest id in the table
NewRowAboveLargestLive(loc) ==
    [id |-> 1 + (CHOOSE n \in 0..MaxId :
                    /\ \A r \in appointments : r.id <= n
                    /\ (n = 0 \/ \E r \in appointments : r.id = n)),
     patient_name |-> loc.data.patient_name,
     age |-> loc.data.age,
     service |-> loc.data.service,
     appointment_date |-> loc.valid_date_str]

\* the row an INSERT adds: AUTOINCREMENT hands out the next id
NewRow(loc) ==
    [id |-> sqlite_sequence + 1,
     patient_name |-> loc.data.patient_name,
     age |-> loc.data.age,
     service |-> loc.data.service,
     appointment_date |-> loc.valid_date_str]

\* create_appointment: conn.commit(), conn.close(), "booked"
CreateCommit(p) ==
    /\ pc[p] = "create_commit"
    /\ writer = p
    /\ appointments' = appointments \cup {NewRow(local[p])}
    /\ sqlite_sequence' = sqlite_sequence + 1
    /\ writer' = 0
    /\ Finish(p, [local[p] EXCEPT !.appointment_id = sqlite_sequence + 1], "booked")
    /\ UNCHANGED now

\* PATCH /appointments/{id}: parse_and_validate_date
UpdateValidate(p, appointment_id, date_str) ==
    /\ pc[p] = "ready"
    /\ LET v   == parse_and_validate_date(date_str, now)
           loc == [Idle EXCEPT !.op = "update", !.appointment_id = appointment_id,
                               !.data = [appointment_date |-> date_str],
                               !.validated_at = now]
       IN  IF ~v.ok THEN Finish(p, loc, v.err)
           ELSE Goto(p, [loc EXCEPT !.valid_date_str = v.text], "update_exists")
    /\ UNCHANGED <<appointments, sqlite_sequence, writer, now>>

\* update_appointment: SELECT id FROM appointments WHERE id = ?
UpdateExists(p) ==
    /\ pc[p] = "update_exists"
    /\ IF ~(\E r \in appointments : r.id = local[p].appointment_id)
       THEN Finish(p, local[p], "NotFound")
       ELSE Goto(p, local[p], "update_check")
    /\ UNCHANGED <<appointments, sqlite_sequence, writer, now>>

\* update_appointment: check_availability(conn, new_dt, appointment_id)
UpdateCheck(p) ==
    /\ pc[p] = "update_check"
    /\ LET new_dt == ParseCanonical(local[p].valid_date_str)
       IN  IF ~check_availability(appointments, new_dt, local[p].appointment_id)
           THEN Finish(p, local[p], "Conflict")
           ELSE Goto(p, local[p], "update_write")
    /\ UNCHANGED <<appointments, sqlite_sequence, writer, now>>

\* update_appointment: the UPDATE opens the write transaction
UpdateWrite(p) ==
    /\ pc[p] = "update_write"
    /\ writer = 0
    /\ writer' = p
    /\ Goto(p, local[p], "update_commit")
    /\ UNCHANGED <<appointments, sqlite_sequence, now>>

\* an UPDATE without its WHERE clause
UpdatedRowsEveryRow(rows, appointment_id, valid_date_str) ==
    { [r EXCEPT !.appointment_date = valid_date_str] : r \in rows }

\* UPDATE appointments SET appointment_date = ? WHERE id = ?
UpdatedRows(rows, appointment_id, valid_date_str) ==
    { IF r.id = appointment_id THEN [r EXCEPT !.appointment_date = valid_date_str] ELSE r
      : r \in rows }

\* update_appointment: conn.commit(), conn.close(), "updated"
UpdateCommit(p) ==
    /\ pc[p] = "update_commit"
    /\ writer = p
    /\ appointments' = UpdatedRows(appointments, local[p].appointment_id,
                                   local[p].valid_date_str)
    /\ writer' = 0
    /\ Finish(p, local[p], "updated")
    /\ UNCHANGED <<sqlite_sequence, now>>

\* DELETE /appointments/{id}: the request arrives
DeleteStart(p, appointment_id) ==
    /\ pc[p] = "ready"
    /\ Goto(p, [Idle EXCEPT !.op = "delete", !.appointment_id = appointment_id],
            "delete_exec")
    /\ UNCHANGED <<appointments, sqlite_sequence, writer, now>>

\* delete_appointment: the DELETE opens the write transaction; with
\* rowcount 0 the connection is closed uncommitted and 404 is raised
DeleteExec(p) ==
    /\ pc[p] = "delete_exec"
    /\ writer = 0
    /\ IF ~(\E r \in appointments : r.id = local[p].appointment_id)
       THEN /\ Finish(p, local[p], "NotFound")
            /\ UNCHANGED writer
       ELSE /\ Goto(p, local[p], "delete_commit")
            /\ writer' = p
    /\ UNCHANGED <<appointments, sqlite_sequence, now>>

\* a DELETE that drops every row up to the given id
DeletedRowsUpTo(rows, appointment_id) == { r \in rows : r.id > appointment_id }

\* DELETE FROM appointments WHERE id = ?
DeletedRows(rows, appointment_id) == { r \in rows : r.id # appointment_id }

\* delete_appointment: conn.commit(), conn.close(), "cancelled"
DeleteCommit(p) ==
    /\ pc[p] = "delete_commit"
    /\ writer = p
    /\ appointments' = DeletedRows(appointments, local[p].appointment_id)
    /\ writer' = 0
    /\ Finish(p, local[p], "cancelled")
    /\ UNCHANGED <<sqlite_sequence, now>>

\* GET /availability: one SELECT over the committed rows, nothing written
GetAvailability(p, date) ==
    /\ pc[p] = "ready"
    /\ Finish(p, [Idle EXCEPT !.op = "availability", !.data = [date |-> date],
                              !.result = get_availability(appointments, date)],
              "slots")
    /\ UNCHANGED <<appointments, sqlite_sequence, writer, now>>

\* GET /appointments/{appointment_id}: the row of that id, or 404
GetAppointment(p, appointment_id) ==
    /\ pc[p] = "ready"
    /\ LET row == { r \in appointments : r.id = appointment_id }
           loc == [Idle EXCEPT !.op = "get", !.appointment_id = appointment_id]
       IN  IF row = {} THEN Finish(p, loc, "NotFound")
           ELSE Finish(p, [loc EXCEPT !.result = row], "found")
    /\ UNCHANGED <<appointments, sqlite_sequence, writer, now>>

\* sqlite3.connect's default busy timeout: a writing statement that finds
\* the write lock held by another connection for the whole wait raises
\* sqlite3.OperationalError, which no handler catches (HTTP 500)
LockTimeout(p) ==
    /\ pc[p] \in {"create_insert", "update_write", "delete_exec"}
    /\ writer \notin {0, p}
    /\ Finish(p, local[p], "OperationalError")
    /\ UNCHANGED <<appointments, sqlite_sequence, writer, now>>

\* time passes
Tick ==
    /\ \E t \in ClockValues : TupleLess(now, t) /\ now' = t
    /\ UNCHANGED <<appointments, sqlite_sequence, writer, pc, local, pre>>

Init ==
    /\ appointments = {}
    /\ sqlite_sequence = 0
    /\ writer = 0
    /\ now = <<2099, 1, 10, 7, 0, 0, 0>>
    /\ pc = [p \in Procs |-> "ready"]
    /\ local = [p \in Procs |-> Idle]
    /\ pre = {}

\* the request threads of the server, any interleaving of their statements
Next ==
    \/ \E p \in Procs, d \in ConcCreateDates :
          CreateValidate(p, Alice @@ [appointment_date |-> d]) /\ UNCHANGED pre
    \/ \E p \in Procs : CreateCheck(p) /\ UNCHANGED pre
    \/ \E p \in Procs : CreateInsert(p) /\ UNCHANGED pre
    \/ \E p \in Procs : CreateCommit(p) /\ UNCHANGED pre
    \/ \E p \in Procs, id \in 1..MaxId, d \in ConcUpdateDates :
          UpdateValidate(p, id, d) /\ UNCHANGED pre
    \/ \E p \in Procs : UpdateExists(p) /\ UNCHANGED pre
    \/ \E p \in Procs : UpdateCheck(p) /\ UNCHANGED pre
    \/ \E p \in Procs : UpdateWrite(p) /\ UNCHANGED pre
    \/ \E p \in Procs : UpdateCommit(p) /\ UNCHANGED pre
    \/ \E p \in Procs, id \in 1..MaxId : DeleteStart(p, id) /\ UNCHANGED pre
    \/ \E p \in Procs : DeleteExec(p) /\ UNCHANGED pre
    \/ \E p \in Procs : DeleteCommit(p) /\ UNCHANGED pre
    \/ \E p \in Procs : LockTimeout(p) /\ UNCHANGED pre
    \/ \E p \in Procs, day \in AvailabilityDays :
          GetAvailability(p, day) /\ UNCHANGED pre
    \/ \E p \in Procs, id \in 1..MaxId : GetAppointment(p, id) /\ UNCHANGED pre

Spec == Init /\ [][Next]_vars

\* no request in flight
Quiet == \A q \in Procs : pc[q] = "ready"

\* one request at a time: a request arrives only when none is in flight
NextSeq ==
    \/ \E data \in SeqBookings :
          /\ Quiet
          /\ CreateValidate(1, data)
          /\ pre' = appointments
    \/ CreateCheck(1) /\ UNCHANGED pre
    \/ CreateInsert(1) /\ UNCHANGED pre
    \/ CreateCommit(1) /\ UNCHANGED pre
    \/ \E id \in 1..MaxId, d \in SeqUpdateDates :
          /\ Quiet
          /\ UpdateValidate(1, id, d)
          /\ pre' = appointments
    \/ UpdateExists(1) /\ UNCHANGED pre
    \/ UpdateCheck(1) /\ UNCHANGED pre
    \/ UpdateWrite(1) /\ UNCHANGED pre
    \/ UpdateCommit(1) /\ UNCHANGED pre
    \/ \E id \in 1..MaxId :
          /\ Quiet
          /\ DeleteStart(1, id)
          /\ pre' = appointments
    \/ DeleteExec(1) /\ UNCHANGED pre
    \/ DeleteCommit(1) /\ UNCHANGED pre
    \/ \E day \in AvailabilityDays :
          /\ Quiet
          /\ GetAvailability(1, day)
          /\ pre' = appointments
    \/ \E id \in 1..MaxId :
          /\ Quiet
          /\ GetAppointment(1, id)
          /\ pre' = appointments
    \/ Tick /\ UNCHANGED pre

SpecSeq == Init /\ [][NextSeq]_vars

(***************************************************************************)
(* Vocabulary of the properties                                            *)
(***************************************************************************)
RECURSIVE DaysBeforeMonth(_, _)
DaysBeforeMonth(y, m) ==
    IF m = 1 THEN 0 ELSE DaysBeforeMonth(y, m - 1) + DaysInMonth(y, m - 1)

\* minutes from 0001-01-01 00:00 to the minute of dt
AbsMinutes(dt) ==
    LET py   == dt[1] - 1
        days == 365 * py + (py \div 4) - (py \div 100) + (py \div 400)
                  + DaysBeforeMonth(dt[1], dt[2]) + (dt[3] - 1)
    IN  (days * 24 + dt[4]) * 60 + dt[5]

\* a record's start time, in minutes
StartMinute(r) == AbsMinutes(ParseCanonical(r.appointment_date))

Distance(a, b) == IF a >= b THEN a - b ELSE b - a

\* the instant a request asks for, truncated to the minute
RequestedMinute(loc) == AbsMinutes(ParseRaw(loc.data.appointment_date))

Succeeded(p, op) ==
    /\ pc[p] = "ready"
    /\ local[p].op = op
    /\ local[p].outcome \in {"booked", "updated", "cancelled"}

(***************************************************************************)
(* C1  No-overlap invariant, one request at a time: any two distinct live  *)
(* appointments start at least APPOINTMENT_DURATION (60) minutes apart.    *)
(* The availability query only rejects starts less than 59 minutes away,   *)
(* so 09:00 and 09:59 are both booked.                                     *)
(***************************************************************************)
C1_NoOverlapDuration ==
    \A a \in appointments : \A b \in appointments :
        a # b => Distance(StartMinute(a), StartMinute(b)) >= APPOINTMENT_DURATION

(***************************************************************************)
(* C2  Check-then-act atomicity: under every interleaving of concurrent    *)
(* requests no two distinct live appointments start less than 59 minutes   *)
(* apart. The handlers query and write in separate steps with no lock      *)
(* held across them, so two creates for one instant are both booked.       *)
(***************************************************************************)
C2_NoOverlapUnderConcurrency ==
    \A a \in appointments : \A b \in appointments :
        a # b => Distance(StartMinute(a), StartMinute(b)) >= WINDOW_MINUTES

(***************************************************************************)
(* C3  Working-hours invariant: every live appointment starts at an hour h *)
(* with WORK_START <= h < WORK_END. update_appointment has no              *)
(* working-hours test, so a reschedule to 16:00 is stored.                 *)
(***************************************************************************)
C3_WorkingHours ==
    \A r \in appointments :
        LET h == ParseCanonical(r.appointment_date)[4]
        IN  WORK_START <= h /\ h < WORK_END

(***************************************************************************)
(* C4  No retroactive booking: the start time stored by an accepted create *)
(* or reschedule is never strictly earlier than the clock reading the      *)
(* request was validated against. The comparison is made before the        *)
(* seconds are dropped, so 09:00:30 validated at 09:00:10 is stored as     *)
(* 09:00.                                                                  *)
(***************************************************************************)
C4_NoRetroactiveBooking ==
    \A p \in Procs :
        (Succeeded(p, "create") \/ Succeeded(p, "update")) =>
            ~TupleLess(ParseCanonical(local[p].valid_date_str), local[p].validated_at)

(***************************************************************************)
(* C5  Conflict decision of create, one request at a time: for a           *)
(* well-formed, future, in-hours instant t, create answers Conflict and    *)
(* writes nothing exactly when some live appointment starts strictly       *)
(* inside (t - 59 min, t + 59 min); otherwise it books t, adding one       *)
(* record that starts at t.                                                *)
(***************************************************************************)
Acceptable(loc) ==
    LET dt == ParseRaw(loc.data.appointment_date)
    IN  /\ dt # NoMatch
        /\ ~TupleLess(dt, loc.validated_at)
        /\ WORK_START <= dt[4] /\ dt[4] < WORK_END

C5_ConflictDecision ==
    \A p \in Procs :
        (pc[p] = "ready" /\ local[p].op = "create" /\ Acceptable(local[p])) =>
            LET t == RequestedMinute(local[p])
                occupied == \E r \in pre : Distance(StartMinute(r), t) < 59
            IN  IF occupied
                THEN local[p].outcome = "Conflict" /\ appointments = pre
                ELSE /\ local[p].outcome = "booked"
                     /\ \E r \in appointments :
                           /\ r \notin pre
                           /\ StartMinute(r) = t
                           /\ appointments = pre \cup {r}

\* a booking exactly 60 minutes after a live one has been accepted
C5_Witness ==
    \E p \in Procs :
        /\ Succeeded(p, "create")
        /\ \E r \in pre : StartMinute(r) + 60 = RequestedMinute(local[p])

(***************************************************************************)
(* C6  Reschedule self-exclusion, one request at a time: rescheduling a    *)
(* live appointment whose start is not yet past to its own current start   *)
(* succeeds and leaves the store as it was; and the record with the id     *)
(* being rescheduled is never among the conflicts its reschedule finds.    *)
(***************************************************************************)
C6_SelfExclusion ==
    /\ \A p \in Procs : \A x \in pre :
          LET dt == ParseRaw(local[p].data.appointment_date)
          IN  ( /\ pc[p] = "ready"
                /\ local[p].op = "update"
                /\ local[p].appointment_id = x.id
                /\ dt # NoMatch
                /\ ~TupleLess(dt, local[p].validated_at)
                /\ AbsMinutes(dt) = StartMinute(x) )
              => (local[p].outcome = "updated" /\ appointments = pre)
    /\ \A p \in Procs :
          pc[p] = "update_check" =>
              \A r \in ConflictRows(appointments, ParseCanonical(local[p].valid_date_str),
                                     local[p].appointment_id) :
                  r.id # local[p].appointment_id

\* an appointment has been rescheduled to its own start
C6_Witness ==
    \E p \in Procs : \E x \in pre :
        /\ Succeeded(p, "update")
        /\ local[p].appointment_id = x.id
        /\ local[p].valid_date_str = x.appointment_date
        /\ appointments = pre

(***************************************************************************)
(* C7  Cancellation outcome, one request at a time: cancel of an id that   *)
(* is not live reports NotFound and leaves the store unchanged; cancel of  *)
(* a live id removes exactly that record and reports success.              *)
(***************************************************************************)
C7_CancelOutcome ==
    \A p \in Procs :
        (pc[p] = "ready" /\ local[p].op = "delete") =>
            LET live == { r \in pre : r.id = local[p].appointment_id }
            IN  IF live = {}
                THEN local[p].outcome = "NotFound" /\ appointments = pre
                ELSE /\ local[p].outcome = "cancelled"
                     /\ Cardinality(live) = 1
                     /\ appointments = pre \ live

\* the second cancel of an id: it was handed out, is gone, and the cancel
\* reports NotFound
C7_Witness ==
    \E p \in Procs :
        /\ pc[p] = "ready"
        /\ local[p].op = "delete"
        /\ local[p].outcome = "NotFound"
        /\ local[p].appointment_id \in 1..sqlite_sequence

(***************************************************************************)
(* C8  Accepted input formats: an ISO-like text with a trailing zone       *)
(* marker, 2099-01-10T09:00:00Z, is accepted by create and reschedule and  *)
(* not rejected as MalformedInput. Every Z is stripped from the text       *)
(* before the ISO format, which still demands the Z, is tried, so no text  *)
(* ever matches that format.                                               *)
(***************************************************************************)
C8_IsoWithZoneAccepted ==
    \A p \in Procs :
        (pc[p] = "ready" /\ local[p].op \in {"create", "update"}
           /\ local[p].data.appointment_date = AsISO(Dt(2099, 1, 10, 9, 0, 0)))
        => local[p].outcome # "MalformedInput"

(***************************************************************************)
(* C9  Rejections do not touch persistence, under every interleaving: the  *)
(* committed rows and the id counter change only in the last step of a     *)
(* request that reports success, and that step changes the rows by one     *)
(* whole record at most; the step in which a request is rejected changes   *)
(* neither.                                                                *)
(***************************************************************************)
Store == <<appointments, sqlite_sequence>>

C9_RejectionsLeaveStore ==
    [][ /\ \A p \in Procs :
             (pc[p] # "ready" /\ pc'[p] = "ready" /\ local'[p].outcome \in Rejections)
                 => Store' = Store
        /\ (Store' # Store) =>
             /\ \E p \in Procs :
                   /\ pc[p] # "ready"
                   /\ pc'[p] = "ready"
                   /\ local'[p].outcome \in {"booked", "updated", "cancelled"}
             /\ Cardinality(appointments' \ appointments) <= 1
             /\ Cardinality(appointments \ appointments') <= 1
      ]_vars

\* a request has been rejected as Conflict while another request holds the
\* write lock, and the committed rows are those it was checked against
C9_Witness ==
    \E p \in Procs : \E q \in Procs :
        /\ p # q
        /\ pc[p] = "ready"
        /\ local[p].outcome = "Conflict"
        /\ writer = q

(***************************************************************************)
(* C10  Reschedule success means the record was updated, also against a    *)
(* concurrent cancel: when a reschedule reports success, the appointment   *)
(* with its id is in the store with the new start right after the          *)
(* reschedule's write. The existence test and the UPDATE are separate      *)
(* steps and the UPDATE's row count is not looked at, so a cancel          *)
(* committed between them leaves a reschedule that reports success for a   *)
(* record that no longer exists.                                           *)
(***************************************************************************)
C10_RescheduleSuccessMeansUpdated ==
    [][ \A p \in Procs :
          (pc[p] = "update_commit" /\ pc'[p] = "ready" /\ local'[p].outcome = "updated")
              => \E r \in appointments' :
                    /\ r.id = local'[p].appointment_id
                    /\ r.appointment_date = local'[p].valid_date_str
      ]_vars

\* the hour a slot label names
LabelHour(label) == 10 * DigitVal(label[1]) + DigitVal(label[2])

\* the record starts on the calendar day `day` (YYYY-MM-DD)
OnDay(r, day) == DayText(ParseCanonical(r.appointment_date)) = day

\* the record's hour of day
HourOfDay(r) == (StartMinute(r) \div 60) % 24

(***************************************************************************)
(* C11  Free-slot computation: for every store and every calendar day the  *)
(* availability answer lists, in ascending order, exactly the whole-hour   *)
(* labels h:00 with WORK_START <= h < WORK_END for which no stored         *)
(* appointment of that day has hour of day h (equality of hours, not the   *)
(* overlap window), and the store is as it was when the request arrived.   *)
(* With 09:30 booked, a booking at 09:05 is rejected as Conflict.          *)
(***************************************************************************)
C11_FreeSlots ==
    /\ \A p \in Procs :
         (pc[p] = "ready" /\ local[p].op = "availability") =>
            LET day   == local[p].data.date
                slots == local[p].result
            IN  /\ appointments = pre
                /\ \A i \in DOMAIN slots :
                      /\ Len(slots[i]) = 5
                      /\ SubSeq(slots[i], 3, 5) = <<":", "0", "0">>
                      /\ IsDigit(slots[i][1]) /\ IsDigit(slots[i][2])
                /\ \A i \in DOMAIN slots : \A j \in DOMAIN slots :
                      i < j => LabelHour(slots[i]) < LabelHour(slots[j])
                /\ { LabelHour(slots[i]) : i \in DOMAIN slots }
                     = { h \in WORK_START..(WORK_END - 1) :
                           ~ \E r \in pre : OnDay(r, day) /\ HourOfDay(r) = h }
    /\ \A p \in Procs :
         ( /\ pc[p] = "ready"
           /\ local[p].op = "create"
           /\ Acceptable(local[p])
           /\ local[p].data.appointment_date = AsShort(Dt(2099, 1, 10, 9, 5, 0))
           /\ \E r \in pre : r.appointment_date = AsShort(Dt(2099, 1, 10, 9, 30, 0)) )
         => local[p].outcome = "Conflict"

\* 09:30 is the one booking of the day and the answer for that day lists
\* 08:00 and 10:00 but not 09:00
C11_Witness ==
    \E p \in Procs :
        /\ pc[p] = "ready"
        /\ local[p].op = "availability"
        /\ local[p].data.date = DayText(Dt(2099, 1, 10, 0, 0, 0))
        /\ { r.appointment_date : r \in appointments } = { AsShort(Dt(2099, 1, 10, 9, 30, 0)) }
        /\ \E i \in DOMAIN local[p].result : local[p].result[i] = <<"1", "0", ":", "0", "0">>
        /\ \E i \in DOMAIN local[p].result : local[p].result[i] = <<"0", "8", ":", "0", "0">>
        /\ ~ \E i \in DOMAIN local[p].result : local[p].result[i] = <<"0", "9", ":", "0", "0">>

(***************************************************************************)
(* C12  Frame of the three writes, one request at a time: a successful     *)
(* reschedule changes only the start of the record with the given id (its  *)
(* id, patient_name, age and service stay) and no other record; a          *)
(* successful create adds exactly one record, with an id no stored record  *)
(* has, and changes no stored record; a successful cancel removes exactly  *)
(* the record with the given id and no other.                              *)
(***************************************************************************)
C12_WriteFrames ==
    \A p \in Procs :
        /\ Succeeded(p, "update") =>
              LET id == local[p].appointment_id
              IN  /\ { r \in appointments : r.id # id } = { r \in pre : r.id # id }
                  /\ Cardinality({ r \in appointments : r.id = id }) = 1
                  /\ \A o \in pre : \A r \in appointments :
                        (o.id = id /\ r.id = id) =>
                            /\ r.patient_name = o.patient_name
                            /\ r.age = o.age
                            /\ r.service = o.service
                            /\ r.appointment_date = local[p].valid_date_str
        /\ Succeeded(p, "create") =>
              /\ pre \subseteq appointments
              /\ Cardinality(appointments \ pre) = 1
              /\ \A r \in appointments \ pre :
                    /\ r.id \notin { o.id : o \in pre }
                    /\ r.id = local[p].appointment_id
                    /\ r.patient_name = local[p].data.patient_name
                    /\ r.age = local[p].data.age
                    /\ r.service = local[p].data.service
        /\ Succeeded(p, "delete") =>
              /\ appointments = { r \in pre : r.id # local[p].appointment_id }
              /\ Cardinality(pre \ appointments) = 1

\* a reschedule has succeeded and moved its record while another record is
\* in the store
C12_Witness ==
    \E p \in Procs :
        /\ Succeeded(p, "update")
        /\ \E r \in appointments : r.id # local[p].appointment_id
        /\ \E o \in pre :
              /\ o.id = local[p].appointment_id
              /\ o.appointment_date # local[p].valid_date_str

\* the outcome the fixed order of checks gives a create request over the
\* rows `rows`
CreateOutcomeInOrder(loc, rows) ==
    LET dt == ParseRaw(loc.data.appointment_date)
    IN  IF dt = NoMatch THEN "MalformedInput"
        ELSE IF TupleLess(dt, loc.validated_at) THEN "PastDate"
        ELSE IF ~(WORK_START <= dt[4] /\ dt[4] < WORK_END) THEN "OutOfHours"
        ELSE IF \E r \in rows : Distance(StartMinute(r), AbsMinutes(dt)) < WINDOW_MINUTES
             THEN "Conflict"
        ELSE "booked"

\* the outcome the fixed order of checks gives a reschedule request over
\* the rows `rows`
RescheduleOutcomeInOrder(loc, rows) ==
    LET dt == ParseRaw(loc.data.appointment_date)
    IN  IF dt = NoMatch THEN "MalformedInput"
        ELSE IF TupleLess(dt, loc.validated_at) THEN "PastDate"
        ELSE IF ~ \E r \in rows : r.id = loc.appointment_id THEN "NotFound"
        ELSE IF \E r \in rows : /\ r.id # loc.appointment_id
                                /\ Distance(StartMinute(r), AbsMinutes(dt)) < WINDOW_MINUTES
             THEN "Conflict"
        ELSE "updated"

(***************************************************************************)
(* C13  Order of checks, one request at a time: a request that breaks      *)
(* several rules reports the first failing check of a fixed order. Create: *)
(* MalformedInput, PastDate, OutOfHours, Conflict (with 15:30 booked a     *)
(* create at 16:00 is OutOfHours, not Conflict), and a create that fails   *)
(* normalization or working hours never reaches the store. Reschedule:     *)
(* MalformedInput, PastDate, then NotFound, then Conflict, and a           *)
(* reschedule that fails normalization never reaches the store.            *)
(***************************************************************************)
C13_OrderOfChecks ==
    \A p \in Procs :
        /\ (pc[p] = "ready" /\ local[p].op = "create") =>
              local[p].outcome = CreateOutcomeInOrder(local[p], pre)
        /\ (pc[p] = "ready" /\ local[p].op = "update") =>
              local[p].outcome = RescheduleOutcomeInOrder(local[p], pre)
        /\ pc[p] \in {"create_check", "create_insert", "create_commit"} =>
              CreateOutcomeInOrder(local[p], {}) = "booked"
        /\ pc[p] \in {"update_exists", "update_check", "update_write", "update_commit"} =>
              RescheduleOutcomeInOrder(local[p], {}) = "NotFound"

\* with 15:30 booked, a create at 16:00 has been rejected as OutOfHours
C13_Witness ==
    \E p \in Procs :
        /\ pc[p] = "ready"
        /\ local[p].op = "create"
        /\ local[p].data.appointment_date = AsShort(Dt(2099, 1, 10, 16, 0, 0))
        /\ local[p].outcome = "OutOfHours"
        /\ \E r \in pre : r.appointment_date = AsShort(Dt(2099, 1, 10, 15, 30, 0))

(***************************************************************************)
(* C14  Weaker no-overlap invariant, one request at a time: there are never*)
(* two distinct live appointments whose starts are strictly less than      *)
(* WINDOW_MINUTES (59) minutes apart.                                      *)
(***************************************************************************)
C14_NoStartsWithinWindow ==
    ~ \E a \in appointments : \E b \in appointments :
          /\ a.id # b.id
          /\ StartMinute(a) <= StartMinute(b)
          /\ StartMinute(b) - StartMinute(a) < WINDOW_MINUTES

\* two live appointments start exactly 59 minutes apart
C14_Witness ==
    \E a \in appointments : \E b \in appointments :
        /\ a.id # b.id
        /\ StartMinute(b) - StartMinute(a) = WINDOW_MINUTES

(***************************************************************************)
(* C15  Free slots are bookable: for every store reached by successful     *)
(* bookings, a create at exactly h:00 of a day is never rejected as        *)
(* Conflict when the availability answer for that day over the same store  *)
(* lists h:00 as free. The answer goes by equality of hours and the        *)
(* booking by the 59-minute window, so with 09:30 booked 10:00 is listed   *)
(* as free and a create at 10:00 is rejected as Conflict.                  *)
(***************************************************************************)
C15_FreeSlotsAreBookable ==
    \A p \in Procs :
        (pc[p] = "ready" /\ local[p].op = "create" /\ Acceptable(local[p])) =>
            LET dt    == ParseRaw(local[p].data.appointment_date)
                slots == get_availability(pre, DayText(dt))
            IN  ( /\ dt[5] = 0 /\ dt[6] = 0
                  /\ \E i \in DOMAIN slots : slots[i] = SlotLabel(dt[4]) )
                => local[p].outcome # "Conflict"

\* the ids of a set of records
Ids(rows) == { r.id : r \in rows }

C17_LockWaitReturnsBusy ==
    [][ \A p \in Procs :
          ( /\ pc[p] \in {"create_insert", "update_write", "delete_exec"}
            /\ writer \notin {0, p}
            /\ pc'[p] = "ready" )
          => /\ local'[p].outcome = "Busy"
             /\ appointments' = appointments
      ]_vars

=============================================================================
